---- MODULE Spec2Model ----
(***************************************************************************)
(* A model of the concurrent queue of olegskl/queue: one queue object, its *)
(* closure state (options.concurrency, isClosed, items, running), the      *)
(* dispatch attempts scheduled with process.nextTick, and the workers that *)
(* are outstanding.  The worker and the final callback are supplied by the *)
(* caller: a worker either calls its completion handler before it returns  *)
(* (synchronously) or later (asynchronously), with or without an error;    *)
(* the callback only records that it was called.                           *)
(***************************************************************************)
EXTENDS Integers, Sequences, FiniteSets, TLC

\* ------------------------------------------------------------------ bounds

\* Number of add calls the caller makes (accepted or not).
MaxAdds == 2

\* Largest concurrency limit the caller sets with concurrency(n).
MaxConc == 2

\* Most dispatch attempts that wait on the next-tick queue when open() is called.
MaxTicks == 2

\* Most final callbacks close() adds to one epoch's record.
MaxCalls == 2

\* ------------------------------------------------------------- constants

\* options.concurrency after construction.
DefaultConcurrency == 10

\* The item values the caller adds; the queue never looks inside them.
Values == {"a", "b"}

\* The truthy values a worker passes to its completion handler.
Errors == {"e1", "e2"}

\* The completion handler called with no argument: err is undefined.
NoError == "none"

\* What a worker passes to its completion handler.
Outcomes == {NoError} \cup Errors

\* What a worker does with one item: keep it and complete later, or call
\* the completion handler before returning, with one of the outcomes.
Modes == {"async"} \cup Outcomes

\* function noop() {}, the default worker and callback.
Noop == "noop"

\* Arguments of concurrency(n), with their JavaScript type.
Num(n) == [type |-> "number", value |-> n]

\* A string: typeof is not 'number'; as a number it would read MaxConc + 1,
\* a value no number argument carries.
NotANumber == [type |-> "string", value |-> MaxConc + 1]

\* Every argument the caller passes: any number from 0 up, or a non-number.
ConcArgs == {Num(n) : n \in 0..MaxConc} \cup {NotANumber}

\* The arguments that are positive integers.
PositiveArgs == {Num(n) : n \in 1..MaxConc}

\* -------------------------------------------------------------------- state

VARIABLES
    concurrency,  \* options.concurrency
    isClosed,     \* isClosed
    items,        \* items: the pending items, head first
    running,      \* running
    ticks,        \* number of work() calls waiting on the next-tick queue
    inflight,     \* ids of the items a worker holds and has not completed
    added,        \* history: every add call, in order, with whether it was accepted
    dispatched,   \* history: the items the worker was invoked with, in order
    succeeded,    \* history: ids whose completion handler was called with no error
    failed,       \* history: [id, err] of the completions with an error, and
                  \*          the ids that were in flight at that moment
    discarded,    \* history: ids removed from items by clear() or by an abort
    calls,        \* history: arguments of the final callback since construction or the last open()
    handlers,     \* options.worker and options.callback: which functions they are
    returned,     \* the object the caller got from its last options() call, if any
    raised        \* some call of the caller ended with a TypeError

vars == <<concurrency, isClosed, items, running, ticks, inflight, added,
          dispatched, succeeded, failed, discarded, calls, handlers,
          returned, raised>>

\* What the operations on the items never touch.
config == <<handlers, returned, raised>>

\* The part of the state work() and the completion handler read and write;
\* peak is the largest value running takes while they execute.
State ==
    [concurrency |-> concurrency, isClosed |-> isClosed, items |-> items,
     running |-> running, inflight |-> inflight, dispatched |-> dispatched,
     succeeded |-> succeeded, failed |-> failed, discarded |-> discarded,
     calls |-> calls, peak |-> running]

Commit(q) ==
    /\ concurrency' = q.concurrency
    /\ isClosed' = q.isClosed
    /\ items' = q.items
    /\ running' = q.running
    /\ inflight' = q.inflight
    /\ dispatched' = q.dispatched
    /\ succeeded' = q.succeeded
    /\ failed' = q.failed
    /\ discarded' = q.discarded
    /\ calls' = q.calls

Ids(s) == {s[i].id : i \in 1..Len(s)}

\* A worker that never reports an error.
OkModes == {"async", NoError}

\* How the worker treats each item that is pending now: a choice of modes.
Scripts(modes) == [Ids(items) -> modes]

\* The last element of a sequence.
Last(s) == s[Len(s)]

TypeOK ==
    /\ concurrency \in Int
    /\ isClosed \in BOOLEAN
    /\ running \in Int
    /\ ticks \in Nat
    /\ inflight \subseteq 1..Len(added)
    /\ DOMAIN handlers = {"worker", "callback"}
    /\ Len(returned) <= 1
    /\ raised \in BOOLEAN

Init ==
    /\ concurrency = DefaultConcurrency
    /\ isClosed = FALSE
    /\ items = <<>>
    /\ running = 0
    /\ ticks = 0
    /\ inflight = {}
    /\ added = <<>>
    /\ dispatched = <<>>
    /\ succeeded = {}
    /\ failed = {}
    /\ discarded = {}
    /\ calls = <<>>
    /\ handlers = [worker |-> Noop, callback |-> Noop]
    /\ returned = <<>>
    /\ raised = FALSE

\* ------------------------------------------------- work and its completion

RECURSIVE work(_, _)

\* The element of a one-element set.  A value is computed once when it is
\* bound as the element of a set, which keeps the nested calls below cheap.
Only(S) == CHOOSE x \in S : TRUE

\* options.callback(err): the caller's callback records its argument.
callback(q, err) == [q EXCEPT !.calls = Append(@, err)]

\* The gate with the comparison off by one: a dispatch at full capacity.
atCapacity_offByOne(q) == q.running > q.concurrency \/ Len(q.items) = 0

\* A gate that tests only for pending items, never the limit.
atCapacity_emptyOnly(q) == Len(q.items) = 0

\* The gate of work(): at full capacity, or nothing to process.
atCapacity(q) == q.running >= q.concurrency \/ Len(q.items) = 0

\* The worker is handed the newest item (items.pop()) instead of the oldest.
shift_takesLast(q) ==
    [q EXCEPT !.running = @ + 1,
              !.items = SubSeq(@, 1, Len(@) - 1),
              !.dispatched = Append(@, Last(q.items))]

\* A dispatch that forgets to count the item as running.
shift_uncounted(q) ==
    [q EXCEPT !.items = Tail(@),
              !.dispatched = Append(@, Head(q.items))]

\* A dispatch that shifts twice: the item behind the head is lost.
shift_dropsNext(q) ==
    [q EXCEPT !.running = @ + 1,
              !.items = IF Len(@) >= 2 THEN Tail(Tail(@)) ELSE Tail(@),
              !.dispatched = Append(@, Head(q.items))]

\* running += 1; items.shift() is handed to the worker.
shift(q) ==
    [q EXCEPT !.running = @ + 1,
              !.peak = IF q.running + 1 > @ THEN q.running + 1 ELSE @,
              !.items = Tail(@),
              !.dispatched = Append(@, Head(q.items))]

\* The error branch that reports the failure and leaves the queue open.
abort_staysOpen(q, item, err) ==
    callback([q EXCEPT !.items = <<>>,
                       !.discarded = @ \cup Ids(q.items),
                       !.failed = @ \cup {[id |-> item.id, err |-> err,
                                            inflight |-> q.inflight]}],
             err)

\* The error branch that closes the queue but keeps the pending items.
abort_keepsPending(q, item, err) ==
    callback([q EXCEPT !.isClosed = TRUE,
                       !.failed = @ \cup {[id |-> item.id, err |-> err,
                                            inflight |-> q.inflight]}],
             err)

\* The error branch that also takes the failed item off the running count.
abort_decrements(q, item, err) ==
    callback([q EXCEPT !.isClosed = TRUE,
                       !.items = <<>>,
                       !.running = @ - 1,
                       !.discarded = @ \cup Ids(q.items),
                       !.failed = @ \cup {[id |-> item.id, err |-> err,
                                            inflight |-> q.inflight]}],
             err)

\* The error branch of the completion handler.
abort(q, item, err) ==
    callback([q EXCEPT !.isClosed = TRUE,
                       !.items = <<>>,
                       !.discarded = @ \cup Ids(q.items),
                       !.failed = @ \cup {[id |-> item.id, err |-> err,
                                            inflight |-> q.inflight]}],
             err)

\* The drain test that forgets the workers still running.
drained_ignoresRunning(q) == q.isClosed /\ Len(q.items) = 0

\* The drain test that never succeeds: no final callback after a completion.
drained_never(q) == FALSE

\* The drain test of the completion handler.
drained(q) == q.isClosed /\ Len(q.items) = 0 /\ q.running = 0

\* A successful completion that never attempts a further dispatch.
proceed_stops(q, script) ==
    IF drained(q) THEN callback(q, NoError) ELSE q

\* The success branch of the completion handler after running -= 1: the
\* final callback on a drain, the next dispatch attempt otherwise.
proceed(q, script) ==
    IF drained(q) THEN callback(q, NoError) ELSE work(q, script)

\* A completion handler whose success branch leaves running as it is.
done_keepsCount(q, item, err, script) ==
    IF err # NoError
    THEN abort(q, item, err)
    ELSE Only({proceed(q1, script) :
                 q1 \in {[q EXCEPT !.succeeded = @ \cup {item.id}]}})

\* The completion handler work() passes to the worker for item.
done(q, item, err, script) ==
    IF err # NoError
    THEN abort(q, item, err)
    ELSE Only({proceed(q1, script) :
                 q1 \in {[q EXCEPT !.running = @ - 1,
                                   !.succeeded = @ \cup {item.id}]}})

\* options.worker(item, done): the worker keeps the item and completes it
\* later, or calls the completion handler before it returns.
worker(q, item, script) ==
    IF script[item.id] = "async"
    THEN [q EXCEPT !.inflight = @ \cup {item.id}]
    ELSE done(q, item, script[item.id], script)

\* work(): one dispatch attempt.  A worker that completes synchronously
\* runs the completion handler, and with it the next attempt, inside it.
work(q, script) ==
    IF atCapacity(q)
    THEN q
    ELSE Only({worker(q1, Last(q1.dispatched), script) : q1 \in {shift(q)}})

\* ------------------------------------------------------------ operations

\* concurrency(n) that stores what the argument reads as, whatever its type.
setConcurrency_coerces(arg) ==
    /\ concurrency' = arg.value
    /\ UNCHANGED <<isClosed, items, running, ticks, inflight, added,
                   dispatched, succeeded, failed, discarded, calls>>
    /\ UNCHANGED config

\* concurrency(n) that schedules a dispatch attempt for the new limit.
setConcurrency_schedules(arg) ==
    /\ concurrency' = IF arg.type = "number" THEN arg.value ELSE concurrency
    /\ ticks' = ticks + 1
    /\ UNCHANGED <<isClosed, items, running, inflight, added,
                   dispatched, succeeded, failed, discarded, calls>>
    /\ UNCHANGED config

\* queue.concurrency(n), the setter form.
setConcurrency(arg) ==
    /\ concurrency' = IF arg.type = "number" THEN arg.value ELSE concurrency
    /\ UNCHANGED <<isClosed, items, running, ticks, inflight, added,
                   dispatched, succeeded, failed, discarded, calls>>
    /\ UNCHANGED config

\* add(item) without the test of the closed flag.
add_ignoresClosed(v) ==
    /\ Len(added) < MaxAdds
    /\ added' = Append(added, [val |-> v, whileOpen |-> ~isClosed])
    /\ items' = Append(items, [id |-> Len(added) + 1, val |-> v])
    /\ ticks' = ticks + 1
    /\ UNCHANGED <<concurrency, isClosed, running, inflight, dispatched,
                   succeeded, failed, discarded, calls>>
    /\ UNCHANGED config

\* add() that also attempts the dispatch inside the call itself.
add_worksInline(v) ==
    /\ Len(added) < MaxAdds
    /\ added' = Append(added, [val |-> v, whileOpen |-> ~isClosed])
    /\ ticks' = IF isClosed THEN ticks ELSE ticks + 1
    /\ IF ~isClosed
       THEN \E q0 \in {[State EXCEPT
                           !.items = Append(@, [id |-> Len(added) + 1, val |-> v])]} :
              \E script \in [Ids(q0.items) -> Modes] :
                \E q \in {work(q0, script)} : Commit(q)
       ELSE UNCHANGED <<concurrency, isClosed, items, running, inflight,
                        dispatched, succeeded, failed, discarded, calls>>
    /\ UNCHANGED config

\* queue.add(item)
add(v) ==
    /\ Len(added) < MaxAdds
    /\ added' = Append(added, [val |-> v, whileOpen |-> ~isClosed])
    /\ IF ~isClosed
       THEN /\ items' = Append(items, [id |-> Len(added) + 1, val |-> v])
            /\ ticks' = ticks + 1
       ELSE UNCHANGED <<items, ticks>>
    /\ UNCHANGED <<concurrency, isClosed, running, inflight, dispatched,
                   succeeded, failed, discarded, calls>>
    /\ UNCHANGED config

\* clear() that leaves the oldest pending item in place.
clear_keepsHead ==
    /\ items' = IF Len(items) = 0 THEN <<>> ELSE <<Head(items)>>
    /\ discarded' = discarded \cup Ids(items)
    /\ UNCHANGED <<concurrency, isClosed, running, ticks, inflight, added,
                   dispatched, succeeded, failed, calls>>
    /\ UNCHANGED config

\* queue.clear()
clear ==
    /\ items' = <<>>
    /\ discarded' = discarded \cup Ids(items)
    /\ UNCHANGED <<concurrency, isClosed, running, ticks, inflight, added,
                   dispatched, succeeded, failed, calls>>
    /\ UNCHANGED config

\* open() that schedules the dispatch attempt but leaves the flag as it is.
open_staysClosed ==
    /\ ticks < MaxTicks
    /\ ticks' = ticks + 1
    /\ calls' = <<>>
    /\ UNCHANGED <<concurrency, isClosed, items, running, inflight, added,
                   dispatched, succeeded, failed, discarded>>
    /\ UNCHANGED config

\* open() that also forgets the items counted as running.
open_resetsRunning ==
    /\ ticks < MaxTicks
    /\ isClosed' = FALSE
    /\ running' = 0
    /\ ticks' = ticks + 1
    /\ calls' = <<>>
    /\ UNCHANGED <<concurrency, items, inflight, added, dispatched,
                   succeeded, failed, discarded>>
    /\ UNCHANGED config

\* queue.open(); a new epoch of the final callback starts.
open ==
    /\ ticks < MaxTicks
    /\ isClosed' = FALSE
    /\ ticks' = ticks + 1
    /\ calls' = <<>>
    /\ UNCHANGED <<concurrency, items, running, inflight, added, dispatched,
                   succeeded, failed, discarded>>
    /\ UNCHANGED config

\* close() as src/queue.js has it: the flag only, no final callback.
close_flagOnly ==
    /\ isClosed' = TRUE
    /\ UNCHANGED <<concurrency, items, running, ticks, inflight, added,
                   dispatched, succeeded, failed, discarded, calls>>
    /\ UNCHANGED config

\* close() that also drops the items that are still pending.
close_cancelsPending ==
    /\ (running = 0 /\ Len(items) = 0) => Len(calls) < MaxCalls
    /\ isClosed' = TRUE
    /\ items' = <<>>
    /\ discarded' = discarded \cup Ids(items)
    /\ calls' = IF running = 0 /\ Len(items) = 0
                THEN Append(calls, NoError)
                ELSE calls
    /\ UNCHANGED <<concurrency, running, ticks, inflight, added,
                   dispatched, succeeded, failed>>
    /\ UNCHANGED config

\* close() that calls the final callback whatever is still outstanding.
close_alwaysCallsBack ==
    /\ Len(calls) < MaxCalls
    /\ isClosed' = TRUE
    /\ calls' = Append(calls, NoError)
    /\ UNCHANGED <<concurrency, items, running, ticks, inflight, added,
                   dispatched, succeeded, failed, discarded>>
    /\ UNCHANGED config

\* queue.close()
close ==
    /\ (running = 0 /\ Len(items) = 0) => Len(calls) < MaxCalls
    /\ isClosed' = TRUE
    /\ calls' = IF running = 0 /\ Len(items) = 0
                THEN Append(calls, NoError)
                ELSE calls
    /\ UNCHANGED <<concurrency, items, running, ticks, inflight, added,
                   dispatched, succeeded, failed, discarded>>
    /\ UNCHANGED config

\* A work() call scheduled with process.nextTick runs; the workers it
\* starts behave in one of the given modes.
nextTick(modes) ==
    /\ ticks > 0
    /\ ticks' = ticks - 1
    /\ \E script \in Scripts(modes) :
          \E q \in {work(State, script)} : Commit(q)
    /\ UNCHANGED added
    /\ UNCHANGED config

\* A worker that kept its item calls the completion handler.
complete(id, err, modes) ==
    /\ id \in inflight
    /\ \E script \in Scripts(modes) :
          \E q \in {done([State EXCEPT !.inflight = @ \ {id}],
                          [id |-> id, val |-> added[id].val], err, script)} :
             Commit(q)
    /\ UNCHANGED <<ticks, added>>
    /\ UNCHANGED config

\* --------------------------------------------------------- configuration

\* The function the caller passes as worker or as callback.
Fns == {"f"}

\* Arguments of worker(fn) and callback(fn), with their JavaScript type.
Fn(f) == [type |-> "function", value |-> f]

\* A string that names a function: typeof is not 'function'.
NotAFunction == [type |-> "string", value |-> "f"]

FnArgs == {Fn(f) : f \in Fns} \cup {NotAFunction}

\* A key the object passed to options() does not have.
NoNumber == [type |-> "absent", value |-> 0]

NoFn == [type |-> "absent", value |-> Noop]

\* The objects the caller passes to options(): for each key of options a
\* value of some type or no such key, and possibly a key the queue does not
\* know.
OptionMaps ==
    [concurrency : ConcArgs \cup {NoNumber},
     worker : FnArgs \cup {NoFn},
     callback : FnArgs \cup {NoFn},
     foo : BOOLEAN]

EmptyMap ==
    [concurrency |-> NoNumber, worker |-> NoFn, callback |-> NoFn,
     foo |-> FALSE]

Object(m) == [type |-> "object", map |-> m]

\* null, undefined and a primitive number: none has an own property.
NonObjects ==
    {[type |-> t, map |-> EmptyMap] : t \in {"null", "undefined", "number"}}

\* Every argument the caller passes to options() or to the constructor.
OptionArgs == {Object(m) : m \in OptionMaps} \cup NonObjects

\* The options object of the closure.
Config ==
    [concurrency |-> concurrency, worker |-> handlers.worker,
     callback |-> handlers.callback]

\* What the caller may write into an object it holds.
Snapshots ==
    [concurrency : 0..MaxConc, worker : Fns \cup {Noop},
     callback : Fns \cup {Noop}]

\* newOptions.hasOwnProperty(optionKey)
hasOwnProperty(m, optionKey) == m[optionKey].type # "absent"

\* queue[optionKey](value): the setter form of the three accessors.
setter(cfg, optionKey, arg) ==
    IF optionKey = "concurrency"
    THEN IF arg.type = "number"
         THEN [cfg EXCEPT !.concurrency = arg.value] ELSE cfg
    ELSE IF arg.type = "function"
         THEN [cfg EXCEPT ![optionKey] = arg.value] ELSE cfg

\* One round of the loop of the options setter.
assign(cfg, m, optionKey) ==
    IF hasOwnProperty(m, optionKey)
    THEN setter(cfg, optionKey, m[optionKey])
    ELSE cfg

\* A loop that stops after the first key of options.
merged_firstKeyOnly(cfg, m) ==
    assign(cfg, m, "concurrency")

\* The loop over the keys of options, in their order of creation.
merged(cfg, m) ==
    assign(assign(assign(cfg, m, "concurrency"), m, "worker"), m, "callback")

\* Reading a property of null or undefined throws a TypeError.
throws(arg) == arg.type \in {"null", "undefined"}

\* queue.worker(fn), the setter form.
setWorker(arg) ==
    /\ handlers' = IF arg.type = "function"
                   THEN [handlers EXCEPT !.worker = arg.value]
                   ELSE handlers
    /\ UNCHANGED <<concurrency, isClosed, items, running, ticks, inflight,
                   added, dispatched, succeeded, failed, discarded, calls,
                   returned, raised>>

\* queue.callback(fn), the setter form.
setCallback(arg) ==
    /\ handlers' = IF arg.type = "function"
                   THEN [handlers EXCEPT !.callback = arg.value]
                   ELSE handlers
    /\ UNCHANGED <<concurrency, isClosed, items, running, ticks, inflight,
                   added, dispatched, succeeded, failed, discarded, calls,
                   returned, raised>>

\* queue.options(newOptions), the setter form.  queue(initialOptions) is
\* this call on the queue as constructed.
setOptions(arg) ==
    /\ IF throws(arg)
       THEN /\ raised' = TRUE
            /\ UNCHANGED <<concurrency, handlers>>
       ELSE /\ \E cfg \in {merged(Config, arg.map)} :
                 /\ concurrency' = cfg.concurrency
                 /\ handlers' = [worker |-> cfg.worker,
                                 callback |-> cfg.callback]
            /\ UNCHANGED raised
    /\ UNCHANGED <<isClosed, items, running, ticks, inflight, added,
                   dispatched, succeeded, failed, discarded, calls, returned>>

\* options() that returns the options object itself, not a copy.
getOptions_returnsOptions ==
    /\ returned' = <<[alias |-> TRUE, map |-> Config]>>
    /\ UNCHANGED <<concurrency, isClosed, items, running, ticks, inflight,
                   added, dispatched, succeeded, failed, discarded, calls,
                   handlers, raised>>

\* queue.options(), the getter form: the caller keeps the object it gets.
getOptions ==
    /\ returned' = <<[alias |-> FALSE, map |-> Config]>>
    /\ UNCHANGED <<concurrency, isClosed, items, running, ticks, inflight,
                   added, dispatched, succeeded, failed, discarded, calls,
                   handlers, raised>>

\* The caller writes into the object it got from options().  Were that
\* object the options object itself, the queue would see the writes.
mutateReturned(m) ==
    /\ Len(returned) = 1
    /\ returned' = <<[returned[1] EXCEPT !.map = m]>>
    /\ IF returned[1].alias
       THEN /\ concurrency' = m.concurrency
            /\ handlers' = [worker |-> m.worker, callback |-> m.callback]
       ELSE UNCHANGED <<concurrency, handlers>>
    /\ UNCHANGED <<isClosed, items, running, ticks, inflight, added,
                   dispatched, succeeded, failed, discarded, calls, raised>>

\* -------------------------------------------------------- specifications

Next ==
    \/ \E arg \in ConcArgs : setConcurrency(arg)
    \/ \E v \in Values : add(v)
    \/ clear
    \/ open
    \/ close
    \/ nextTick(Modes)
    \/ \E id \in inflight, err \in Outcomes : complete(id, err, Modes)

Spec == Init /\ [][Next]_vars

\* The caller sets only positive integer limits (or passes a non-number).
NextValid ==
    \/ \E arg \in PositiveArgs \cup {NotANumber} : setConcurrency(arg)
    \/ \E v \in Values : add(v)
    \/ clear
    \/ open
    \/ close
    \/ nextTick(Modes)
    \/ \E id \in inflight, err \in Outcomes : complete(id, err, Modes)

SpecValid == Init /\ [][NextValid]_vars

\* Some worker that kept its item completes it without an error.
completeOk == \E id \in inflight : complete(id, NoError, OkModes)

\* The caller never calls clear(), sets positive limits only, and no worker
\* reports an error.
NextNoClear ==
    \/ \E arg \in PositiveArgs : setConcurrency(arg)
    \/ \E v \in Values : add(v)
    \/ open
    \/ close
    \/ nextTick(OkModes)
    \/ completeOk

\* Node runs every scheduled tick, and every worker completes its item.
Fairness == WF_vars(nextTick(OkModes)) /\ WF_vars(completeOk)

SpecNoClear == Init /\ [][NextNoClear]_vars /\ Fairness

\* clear() called on a queue that is open.
clearWhileOpen == ~isClosed /\ clear

\* As NextNoClear, and the caller calls clear() only before close().
NextClearFirst ==
    \/ \E arg \in PositiveArgs : setConcurrency(arg)
    \/ \E v \in Values : add(v)
    \/ clearWhileOpen
    \/ open
    \/ close
    \/ nextTick(OkModes)
    \/ completeOk

SpecClearFirst == Init /\ [][NextClearFirst]_vars /\ Fairness

\* Some worker that kept its item completes it, with or without an error.
completeAny == \E id \in inflight, err \in Outcomes : complete(id, err, Modes)

\* No clear() and positive limits; workers may report errors, and the
\* caller reopens the queue.
NextReopen ==
    \/ \E arg \in PositiveArgs : setConcurrency(arg)
    \/ \E v \in Values : add(v)
    \/ open
    \/ close
    \/ nextTick(Modes)
    \/ completeAny

SpecReopen ==
    Init /\ [][NextReopen]_vars
         /\ WF_vars(nextTick(Modes)) /\ WF_vars(completeAny)

\* The caller configures a queue it has just constructed.
NextConfig ==
    \/ \E arg \in ConcArgs : setConcurrency(arg)
    \/ \E arg \in FnArgs : setWorker(arg)
    \/ \E arg \in FnArgs : setCallback(arg)
    \/ \E arg \in OptionArgs : setOptions(arg)
    \/ getOptions
    \/ \E m \in Snapshots : mutateReturned(m)

SpecConfig == Init /\ [][NextConfig]_vars

\* The caller configures the queue while it is at work: items are added
\* (all with the same value: no operation looks at it) and dispatched,
\* workers complete without error, and any setter is called at any moment
\* with any argument.
NextSetters ==
    \/ \E arg \in ConcArgs : setConcurrency(arg)
    \/ \E arg \in FnArgs : setWorker(arg)
    \/ \E arg \in FnArgs : setCallback(arg)
    \/ \E arg \in OptionArgs : setOptions(arg)
    \/ add("a")
    \/ open
    \/ close
    \/ nextTick(OkModes)
    \/ completeOk

SpecSetters == Init /\ [][NextSetters]_vars

\* The worker calls its completion handler before it returns, and never
\* with an error; the caller sets positive limits and does not reopen.
NextSync ==
    \/ \E arg \in PositiveArgs : setConcurrency(arg)
    \/ \E v \in Values : add(v)
    \/ clear
    \/ close
    \/ nextTick({NoError})

SpecSync == Init /\ [][NextSync]_vars

\* ------------------------------------------------------------------ claims

\* The ids of the add calls made while the queue was open.
Accepted == {i \in 1..Len(added) : added[i].whileOpen}

\* The ids of the add calls made while the queue was closed.
Rejected == {i \in 1..Len(added) : ~added[i].whileOpen}

\* How many times the worker was invoked with the item of add call i.
TimesDispatched(i) ==
    Cardinality({k \in 1..Len(dispatched) : dispatched[k].id = i})

\* C1 as stated: in every reachable state the number of outstanding worker
\* invocations is at most the configured concurrency limit.  The workers
\* counted are those that hold an item; running is never less than that.
OutstandingWithinLimit == Cardinality(inflight) <= concurrency

\* C1 amended: no dispatch takes running above the limit (after every step
\* that invoked the worker, running is at most the limit), and running comes
\* to exceed the limit only in a step that lowers the limit.
DispatchWithinLimit ==
    [][/\ Len(dispatched') > Len(dispatched) => running' <= concurrency'
       /\ (running <= concurrency /\ running' > concurrency')
             => concurrency' < concurrency]_vars

\* C1 witness: the window is full, an item waits, and a worker was started.
WindowFull ==
    /\ running = concurrency
    /\ Len(items) > 0
    /\ inflight # {}

\* C2: within one epoch (since construction or the last open()) the final
\* callback is invoked at most once.
CallbackAtMostOncePerEpoch == Len(calls) <= 1

\* C3: the worker is invoked with the accepted items in the order of their
\* add calls, each at most once, and with exactly the value that was added.
FifoDispatch ==
    /\ \A i, j \in 1..Len(dispatched) :
          i < j => dispatched[i].id < dispatched[j].id
    /\ \A k \in 1..Len(dispatched) :
          /\ dispatched[k].id \in Accepted
          /\ dispatched[k].val = added[dispatched[k].id].val

\* C3 witness: two items with different values were dispatched.
TwoDispatchedInOrder ==
    /\ Len(dispatched) >= 2
    /\ dispatched[1].val # dispatched[2].val

\* C4: with no clear() and no worker error, every item added to the open
\* queue is eventually handed to the worker, exactly once, whether or not
\* close() is called before its turn.
EveryAddedItemDispatched ==
    \A i \in 1..MaxAdds : (i \in Accepted) ~> (TimesDispatched(i) = 1)

\* C4 witness: the queue was closed with an item pending, and every item
\* reached the worker all the same.
DispatchedAfterClose ==
    /\ isClosed
    /\ Len(added) >= 2
    /\ Accepted = 1..Len(added)
    /\ Len(dispatched) = Len(added)
    /\ calls = <<NoError>>

\* C5: a completion with an error e leaves the queue closed and without
\* pending items, and the final callback was invoked once more, with e.
ErrorAborts ==
    [][failed' # failed =>
          /\ isClosed'
          /\ items' = <<>>
          /\ \E f \in failed' \ failed :
                /\ failed' = failed \cup {f}
                /\ calls' = Append(calls, f.err)]_vars

\* C5 witness: an error was reported while an item was pending; the item
\* is gone, the queue is closed and the callback holds that error.
AbortedWithPending ==
    /\ isClosed
    /\ items = <<>>
    /\ discarded # {}
    /\ \E f \in failed : calls = <<f.err>>

\* C6: the final callback is invoked without an error only in a drain state
\* (closed, nothing pending, nothing running), and a successful completion
\* that leaves a drain state invokes it.
NoErrorOnlyOnDrain ==
    [][/\ calls' = Append(calls, NoError) =>
             /\ isClosed'
             /\ Len(items') = 0
             /\ running' = 0
             /\ inflight' = {}
       /\ (succeeded' # succeeded /\ isClosed' /\ Len(items') = 0
              /\ running' = 0)
             => calls' = Append(calls, NoError)]_vars

\* C6 witness: every dispatched item succeeded and the callback was invoked
\* without an error.
DrainedAfterWork ==
    /\ calls = <<NoError>>
    /\ Cardinality(succeeded) >= 2
    /\ Len(dispatched) = Cardinality(succeeded)

\* C7: once the queue is closed, and clear() was not called after close(),
\* the final callback is eventually invoked without an error unless the
\* queue is reopened.
ClosedEventuallyDrains ==
    isClosed ~> (~isClosed \/ \E k \in 1..Len(calls) : calls[k] = NoError)

\* C7 witness: an item was cleared, another one ran to completion, and the
\* closed queue invoked the callback.
DrainedAfterClear ==
    /\ isClosed
    /\ discarded # {}
    /\ succeeded # {}
    /\ calls = <<NoError>>

\* C8: close() on a queue with nothing pending and nothing running sets the
\* closed flag and invokes the final callback without an error in that call.
CloseOnIdleCallsBack ==
    [][(close /\ Len(items) = 0 /\ running = 0) =>
          (isClosed' /\ calls' = Append(calls, NoError))]_vars

\* C8 witness: a queue that never had an item was closed and called back.
ClosedWhenIdle ==
    /\ isClosed
    /\ Len(added) = 0
    /\ calls = <<NoError>>

\* C9: add on a closed queue changes nothing and schedules nothing, and its
\* item is never pending nor handed to the worker, also after open().
AddOnClosedIsNoOp ==
    /\ [](Rejected \cap (Ids(items) \cup Ids(dispatched) \cup inflight) = {})
    /\ [][(Len(added') > Len(added) /\ isClosed) =>
             UNCHANGED <<concurrency, isClosed, items, running, ticks,
                         inflight, dispatched, succeeded, failed, discarded,
                         calls>>]_vars

\* C9 witness: an add was refused, the queue was reopened, and a later item
\* was accepted and dispatched.
RefusedThenReopened ==
    /\ Len(added) = 2
    /\ ~added[1].whileOpen
    /\ added[2].whileOpen
    /\ 2 \in Ids(dispatched)

\* C10: clear() empties the pending items and leaves running, the closed
\* flag and the outstanding workers alone; no cleared item is ever handed
\* to the worker.
ClearDropsPendingOnly ==
    /\ [](discarded \cap (Ids(items) \cup Ids(dispatched) \cup inflight) = {})
    /\ [][clear => (/\ Len(items') = 0
                    /\ UNCHANGED <<running, isClosed, inflight, ticks>>)]_vars

\* C10 witness: the second item was cleared while the first was with the
\* worker, and the first completed normally.
ClearedWhileRunning ==
    /\ discarded = {2}
    /\ failed = {}
    /\ succeeded = {1}
    /\ running = 0

\* C11: open() leaves the queue open, and every item that is pending in an
\* open queue (added after a reopening included) is eventually handed to the
\* worker, unless the queue is closed again first.
ReopenedQueueDispatches ==
    /\ [][open => ~isClosed']_vars
    /\ \A i \in 1..MaxAdds :
          (i \in Ids(items) /\ ~isClosed) ~> (TimesDispatched(i) = 1 \/ isClosed)

\* C12: add(item) and open() never invoke the worker within the call: the
\* step of add() on an open queue appends the item to the pending items and
\* schedules one dispatch attempt, the step of open() schedules one dispatch
\* attempt, and both leave running, the dispatched items, the workers in
\* flight and the callback invocations of add() as they were.
DispatchIsDeferred ==
    [][/\ (Len(added') > Len(added) /\ ~isClosed) =>
            /\ Len(items') = Len(items) + 1
            /\ Last(items').id = Len(added')
            /\ SubSeq(items', 1, Len(items)) = items
            /\ ticks' = ticks + 1
            /\ UNCHANGED <<running, dispatched, inflight, succeeded, failed, calls>>
       /\ open =>
            /\ ticks' = ticks + 1
            /\ UNCHANGED <<items, running, dispatched, inflight, succeeded, failed>>
      ]_vars

\* Two add() calls in a row: both items pending, two attempts scheduled,
\* nothing dispatched yet.
AddedButNotYetDispatched ==
    /\ Len(items) = 2
    /\ ticks = 2
    /\ running = 0
    /\ dispatched = <<>>

\* The dispatch attempts still to come cover the pending items, or the
\* window is full, or nothing is pending.
Kept ==
    \/ Len(items) = 0
    \/ running >= concurrency
    \/ ticks >= Len(items)

\* C13 as stated, in its weaker reading: in every quiescent state in which
\* no worker has reported an error, nothing is pending or running equals the
\* limit, whatever concurrency(n) did before.
WindowAlwaysFull ==
    (ticks = 0 /\ failed = {}) => (Len(items) = 0 \/ running = concurrency)

\* C13, amended: every step other than a raise of the limit over pending
\* items keeps the window covered, so in a quiescent state reached without
\* such a raise nothing is pending or running has reached the limit.
WindowKeptUnlessRaised ==
    [][(Kept /\ ~(concurrency' > concurrency /\ Len(items) > 0)) => Kept']_vars

\* The second item took the place of the first one when that completed.
WindowRefilled ==
    /\ ticks = 0
    /\ failed = {}
    /\ concurrency = 1
    /\ succeeded = {1}
    /\ inflight = {2}

\* C14: running equals the number of items handed to the worker whose
\* completion handler has not been invoked yet, in every reachable state.
RunningCountsOutstanding ==
    running = Cardinality(inflight)

\* C15: running is never negative (every completion handler is invoked at
\* most once: complete() takes the item out of the workers in flight).
RunningNeverNegative ==
    running >= 0

\* Both items were dispatched and completed: running went up and down twice.
AllCompleted ==
    /\ Cardinality(succeeded) = 2
    /\ running = 0
    /\ ~isClosed

\* C16: the closed flag is false after construction; open() makes it false,
\* close() and a worker-reported error make it true, and no other step
\* (add, clear, concurrency, a dispatch attempt, a successful completion)
\* changes it: it is true iff the latest of those three events was a close()
\* or an error.
ClosedFlagLifecycle ==
    /\ ~isClosed
    /\ [][IF open
          THEN ~isClosed'
          ELSE IF close \/ failed' # failed
               THEN isClosed'
               ELSE isClosed' = isClosed]_vars

\* Aborted by a worker error, reopened, and a new item accepted.
ReopenedAfterError ==
    /\ failed # {}
    /\ ~isClosed
    /\ Len(items) = 1

\* The numbers the caller passes as a limit.
Numbers == {arg.value : arg \in {a \in ConcArgs : a.type = "number"}}

\* C17 as stated: the limit is a positive integer in every reachable state.
LimitIsPositive ==
    concurrency \in Nat \ {0}

\* C17, amended: the limit changes only in a call of concurrency(n) or of
\* options({concurrency: n}) whose n is of type number, and then it is n,
\* zero included; an argument of any other type never replaces it.
LimitFollowsNumbers ==
    [][concurrency' # concurrency =>
          \E n \in Numbers :
             /\ concurrency' = n
             /\ \/ setConcurrency(Num(n))
                \/ \E arg \in OptionArgs :
                      setOptions(arg) /\ arg.map.concurrency = Num(n)]_vars

\* The caller has set the limit to zero.
LimitZero ==
    concurrency = 0

\* C18: no call of the caller ends with an error thrown by the queue.
NeverRaises ==
    ~raised

\* C19: options() with no argument changes nothing but what the caller
\* holds, the object it returns has the current values, and writing into
\* that object afterwards leaves the limit, the worker, the callback and the
\* rest of the queue as they were.
SnapshotIsACopy ==
    [][returned' # returned =>
          /\ UNCHANGED <<concurrency, handlers, isClosed, items, running,
                         ticks, inflight, calls, raised>>
          /\ getOptions => returned'[1].map = Config]_vars

\* The caller replaced the worker in the object it got; the queue still has
\* the default worker.
SnapshotMutated ==
    /\ Len(returned) = 1
    /\ returned[1].map.worker = "f"
    /\ handlers.worker = Noop

\* Every key the object has carries a value of the type its setter takes.
WellTyped(m) ==
    /\ m.concurrency.type \in {"number", "absent"}
    /\ m.worker.type \in {"function", "absent"}
    /\ m.callback.type \in {"function", "absent"}

\* C20: options(m) with well-typed values leaves, for each of concurrency,
\* worker and callback, m's value if m has the key and the previous value
\* otherwise, whatever other keys m has; that is what the setters of the keys
\* present give when called one by one; and options() returns these values.
OptionsRoundTrip ==
    [][/\ \A arg \in OptionArgs :
             (arg.type = "object" /\ WellTyped(arg.map) /\ setOptions(arg)) =>
                /\ \A k \in {"concurrency", "worker", "callback"} :
                      Config'[k] = IF hasOwnProperty(arg.map, k)
                                   THEN arg.map[k].value
                                   ELSE Config[k]
                /\ Config' = setter(setter(setter(Config,
                                 "concurrency", arg.map.concurrency),
                                 "worker", arg.map.worker),
                                 "callback", arg.map.callback)
       /\ getOptions => returned'[1].map = Config'
      ]_vars

\* options({concurrency: 1, worker: f}) followed by options().
OptionsReadBack ==
    /\ Len(returned) = 1
    /\ returned[1].map = [concurrency |-> 1, worker |-> "f", callback |-> Noop]
    /\ Config = returned[1].map

\* C21: a dispatch attempt that finds running >= the limit or nothing
\* pending changes nothing but the number of attempts still scheduled: the
\* pending items, running and the closed flag stay, no worker and no
\* callback is invoked.  A redundant attempt is thus the same as no attempt.
GatedAttemptIsNoOp ==
    [][(ticks' = ticks - 1 /\ (running >= concurrency \/ Len(items) = 0)) =>
          UNCHANGED <<concurrency, isClosed, items, running, inflight, added,
                      dispatched, succeeded, failed, discarded, calls,
                      config>>]_vars

\* Two items added under limit 1: the first attempt dispatched item 1, the
\* second one found the window full and left item 2 pending.
SecondAttemptGated ==
    /\ ticks = 0
    /\ Len(added) = 2
    /\ concurrency = 1
    /\ Len(dispatched) = 1
    /\ inflight = {1}
    /\ Ids(items) = {2}

\* The final callback was called with an error since construction or the
\* last open().
ErrorInEpoch == \E i \in 1..Len(calls) : calls[i] # NoError

\* C22: a completion with an error leaves running as it is, empties the
\* pending items and attempts no dispatch; running changes in a step only by
\* the items dispatched minus the items completed without error; and once an
\* error was reported no step dispatches an item until open() is called.
ErrorCompletionIsTerminal ==
    [][/\ (\E id \in inflight, err \in Errors : complete(id, err, Modes)) =>
             /\ UNCHANGED <<running, dispatched, ticks>>
             /\ items' = <<>>
       /\ failed' # failed =>
             running' - running =
                (Len(dispatched') - Len(dispatched))
                   - (Cardinality(succeeded') - Cardinality(succeeded))
       /\ ErrorInEpoch => dispatched' = dispatched
      ]_vars

\* Two items added, the worker failed on the first: the second was
\* discarded, and the attempt scheduled for it found nothing to do.
AttemptAfterAbort ==
    /\ ticks = 0
    /\ isClosed
    /\ Len(added) = 2
    /\ Len(dispatched) = 1
    /\ Cardinality(failed) = 1
    /\ discarded = {2}

\* C23: when a worker's error has aborted the queue while other workers
\* were in flight, the later completion without error of any of those
\* workers does not invoke the final callback: if the callback runs in that
\* step at all, it is for the error of an item dispatched after it.
LateSuccessIsSilent ==
    [][\A id \in inflight :
          ((\E f \in failed : id \in f.inflight)
              /\ complete(id, NoError, Modes)) =>
             /\ Len(calls') >= Len(calls)
             /\ Len(calls') > Len(calls) =>
                   (Last(calls') # NoError /\ failed' # failed)]_vars

\* Item 2 was in flight when item 1 failed and has completed since; the
\* callback has run once, for the error.
SucceededAfterAbort ==
    \E f \in failed :
       /\ f.inflight \cap succeeded # {}
       /\ calls = <<f.err>>
       /\ inflight = {}

\* C24: close() called while an item is pending or running > 0 sets the
\* closed flag and nothing else: no callback is invoked in the call, and the
\* pending items, running and the workers in flight are as before.
CloseWithWorkOnlySetsFlag ==
    [][(close /\ (Len(items) > 0 \/ running > 0)) =>
          /\ isClosed'
          /\ UNCHANGED <<calls, items, running, inflight, dispatched, ticks,
                         concurrency, discarded>>]_vars

\* Closed with one worker in flight and one item pending: no callback yet.
ClosedWithWorkOutstanding ==
    /\ isClosed
    /\ failed = {}
    /\ inflight = {1}
    /\ Ids(items) = {2}
    /\ calls = <<>>

ItemsConserved ==
    /\ \A i \in Accepted :
          /\ Cardinality({k \in 1..Len(items) : items[k].id = i})
                + TimesDispatched(i)
                + (IF i \in discarded THEN 1 ELSE 0) = 1
    /\ \A i \in Rejected :
          /\ i \notin Ids(items) \cup Ids(dispatched) \cup discarded
    /\ \A k \in 1..Len(dispatched) :
          /\ dispatched[k].id \in Accepted
          /\ dispatched[k].val = added[dispatched[k].id].val
    /\ \A k \in 1..Len(items) :
          /\ items[k].id \in Accepted
          /\ items[k].val = added[items[k].id].val
          /\ \A l \in 1..Len(items) : k < l => items[k].id < items[l].id
    /\ inflight \cup succeeded \cup {f.id : f \in failed} \subseteq Ids(dispatched)

\* The first item was cleared before its dispatch and the second went to
\* the worker: one discarded, one dispatched, none lost.
OneDiscardedOneDispatched ==
    /\ Len(added) = 2
    /\ Accepted = {1, 2}
    /\ discarded = {1}
    /\ Ids(dispatched) = {2}
    /\ Len(items) = 0

\* C27: a step that changes the limit, the worker or the callback (a setter
\* or options(m) acted) changes nothing else: the pending items, running
\* and the closed flag stay, no worker and no callback is invoked, and no
\* dispatch attempt is scheduled; after a raise of the limit the pending
\* items wait for an attempt scheduled by add or open, or for a completion.
SettersOnlyConfigure ==
    [][(concurrency' # concurrency \/ handlers' # handlers) =>
          UNCHANGED <<isClosed, items, running, ticks, inflight, added,
                      dispatched, succeeded, failed, discarded, calls,
                      returned, raised>>]_vars

\* Limit 1 was raised to 2 through a setter with a new worker in place, one
\* worker in flight and one item pending: no attempt is scheduled, the item
\* waits.
RaisedWhilePending ==
    /\ concurrency = 2
    /\ handlers.worker = "f"
    /\ running = 1
    /\ inflight = {1}
    /\ Ids(items) = {2}
    /\ ticks = 0

\* C28: with a worker that completes synchronously and without error,
\* running is 0 between the steps and never above 1 inside a dispatch
\* attempt, whatever the limit; an attempt hands every pending item to the
\* worker, oldest first, before it returns; an attempt that comes after it
\* finds nothing pending and dispatches nothing.
SyncWorkerRunsOneAtATime ==
    /\ [](/\ running = 0
          /\ \A script \in Scripts({NoError}) : work(State, script).peak <= 1)
    /\ [][ticks' = ticks - 1 =>
             /\ items' = <<>>
             /\ dispatched' = dispatched \o items]_vars

\* Two items added in a row: the first attempt has handed both to the
\* worker, the attempt scheduled by the second add is still to come.
BothDispatchedByFirstAttempt ==
    /\ Len(dispatched) = 2
    /\ succeeded = {1, 2}
    /\ ticks = 1
    /\ Len(items) = 0

====
